---- MODULE Spec2Model ----
(***************************************************************************)
(* Model of the two applications of Signal_Processigng:                    *)
(*   PCB_signal_processing_2.py  (signal synthesis, noise, filters, FFT)   *)
(*   Audio_signal_processing.py  (audio filters, load / process / play)    *)
(*                                                                         *)
(* Numbers.  Samples are fixed-point integers, AMP standing for the        *)
(* amplitude 1.0.  Phases are counted in PHASE-ths of a cycle.  Times of   *)
(* the signal application are counted in hundredths of a second (the step  *)
(* of its time grid) and its frequencies in tenths of a hertz, so that     *)
(* 0.5 Hz, 2.5 Hz and 5 Hz are integers; the audio application's           *)
(* frequencies are in hertz.  A normalised cutoff is the exact fraction    *)
(* <<numerator, denominator>>.                                             *)
(*                                                                         *)
(* A Python call that may raise either returns a value or raises: its      *)
(* result is the record [exc |-> NoError, val |-> v, log |-> calls] or      *)
(* [exc |-> <exception>, val |-> <<>>, log |-> calls].                      *)
(***************************************************************************)
EXTENDS Integers, Sequences, FiniteSets, TLC

VARIABLES
    signal_data,       \* PCB app: self.signal_data (None or the CSV's first column)
    last,              \* PCB app: what the last button handler did
    audio_signal,      \* audio app: self.audio_signal
    sampling_rate,     \* audio app: self.sampling_rate
    processed_signal,  \* audio app: self.processed_signal
    processed_from,    \* audio app: the audio and rate process_audio read when it
                       \*   last stored processed_signal (history variable)
    playing,           \* audio app: what sounddevice is playing (None: silent)
    dialog,            \* audio app: the warning the last handler showed ("": none)
    call               \* the last call of a module-level function, with its result

vars == <<signal_data, last, audio_signal, sampling_rate, processed_signal,
          processed_from, playing, dialog, call>>

\* Python's None and a value that is not None
None == <<>>
Some(v) == <<v>>
\* no exception raised
NoError == "NoError"

\* log: the calls of scipy.signal made on the way, in order
Ret(v, log) == [exc |-> NoError, val |-> v, log |-> log]
Raise(e, log) == [exc |-> e, val |-> <<>>, log |-> log]

----------------------------------------------------------------------------
(* Arithmetic of the numeric libraries, in fixed point.                     *)

\* the amplitude 1.0 of np.sin
AMP == 100
\* one cycle (2*pi), in tenths of a degree
PHASE == 3600
\* the fixed-point 1.0 of the filter coefficients (a[0] of a designed filter)
ONE == 256

Abs(x) == IF x < 0 THEN -x ELSE x

Sign(x) == IF x > 0 THEN 1 ELSE IF x < 0 THEN -1 ELSE 0

\* np.sin on the half cycle 0..PHASE/2 (Bhaskara's rational approximation,
\* exact at 0, 1/12, 1/4, 5/12 and 1/2 of a cycle)
HalfSine(x) ==
    LET h == PHASE \div 2
        p == x * (h - x)
    IN  (4 * AMP * p) \div ((5 * h * h) \div 4 - p)

\* np.sin(2*pi*p/PHASE), scaled by AMP
Sin(p) ==
    LET q == p % PHASE
    IN  IF q <= PHASE \div 2 THEN HalfSine(q) ELSE -HalfSine(q - PHASE \div 2)

Cos(p) == Sin(p + PHASE \div 4)

RECURSIVE IsqrtFrom(_, _)
IsqrtFrom(v, r) == IF (r + 1) * (r + 1) > v THEN r ELSE IsqrtFrom(v, r + 1)

RECURSIVE Isqrt(_)
\* floor of the square root
Isqrt(v) ==
    IF v < 4 THEN IsqrtFrom(v, 0)
    ELSE LET s == 2 * Isqrt(v \div 4)
         IN  IF (s + 1) * (s + 1) <= v THEN s + 1 ELSE s

RECURSIVE SumTo(_, _)
\* sum of f[1..n]
SumTo(f, n) == IF n = 0 THEN 0 ELSE f[n] + SumTo(f, n - 1)

----------------------------------------------------------------------------
(* PCB_signal_processing_2.py: generate_signal                              *)

\* phase of a sinusoid of frequency f (tenths of a hertz) at time t
\* (hundredths of a second): 2 * np.pi * f * t
Phase(f, t) == (PHASE * f * t) \div 1000

SineWave(frequency, time) ==
    [i \in 1..Len(time) |-> Sin(Phase(frequency, time[i]))]

generate_signal(signal_type, frequency, time) ==
    IF signal_type = "sine" THEN
        SineWave(frequency, time)
    ELSE IF signal_type = "square" THEN
        [i \in 1..Len(time) |-> AMP * Sign(Sin(Phase(frequency, time[i])))]
    ELSE IF signal_type = "sawtooth" THEN
        [i \in 1..Len(time) |->
            LET tf == time[i] * frequency      \* in thousandths of a cycle
            IN  (2 * AMP * (tf - 1000 * ((500 + tf) \div 1000))) \div 1000]
    ELSE IF signal_type = "modulated" THEN
        LET carrier_freq == 100
            modulator_freq == 5
        IN  [i \in 1..Len(time) |->
                (Sin(Phase(carrier_freq, time[i]))
                    * Sin(Phase(modulator_freq, time[i]))) \div AMP]
    ELSE
        SineWave(frequency, time)

----------------------------------------------------------------------------
(* PCB_signal_processing_2.py: add_noise.  The draws of np.random are the   *)
(* argument rng: normal[i] standard normal draws, idx the impulse indices   *)
(* (0-based, as numpy counts), uni[j] uniform draws in quarters of [0, 1),  *)
(* freq the interference frequency in tenths of a cycle per sample.         *)

\* np.random.normal(0, scale, n)
NpNormal(scale, z, n) == [i \in 1..n |-> scale * z[i]]

\* np.random.uniform(low, high, n): low + (high - low) * u
NpUniform(low, high, u, n) == [j \in 1..n |-> low + ((high - low) * u[j]) \div 4]

\* (mutant of AssignAt: np.add.at(noise, indices, values), which accumulates
\* the values written to one position)
RECURSIVE AssignAt_accumulate(_, _, _, _)
AssignAt_accumulate(noise, indices, values, j) ==
    IF j > Len(indices) THEN noise
    ELSE AssignAt_accumulate(
            [noise EXCEPT ![indices[j] + 1] = noise[indices[j] + 1] + values[j]],
            indices, values, j + 1)

\* noise = np.zeros(n); noise[indices] = values: the assignments are made in
\* order, so that the last value written to a position stays
RECURSIVE AssignAt(_, _, _, _)
AssignAt(noise, indices, values, j) ==
    IF j > Len(indices) THEN noise
    ELSE AssignAt([noise EXCEPT ![indices[j] + 1] = values[j]], indices, values, j + 1)

\* 5% of the signal points: int(0.05 * len(signal))
NumImpulses(n) == (5 * n) \div 100

\* rng.idx is np.random.randint(0, n, num_impulses): num_impulses indices in
\* 0 .. n-1, repeats possible (none at all for fewer than 20 samples)
ImpulseNoise(n, intensity, rng) ==
    LET noise == [i \in 1..n |-> 0]
        num_impulses == NumImpulses(n)
        impulse_indices == rng.idx
    IN  AssignAt(noise, impulse_indices,
                 NpUniform(-intensity * 2, intensity * 2, rng.uni, num_impulses), 1)

\* (mutant of NoiseOf: the else branch fills the noise with the intensity
\* instead of zeros)
NoiseOf_else_full(n, noise_type, intensity, rng) ==
    IF noise_type = "gaussian" THEN
        NpNormal(intensity, rng.normal, n)
    ELSE IF noise_type = "impulse" THEN
        ImpulseNoise(n, intensity, rng)
    ELSE IF noise_type = "frequency_interference" THEN
        [i \in 1..n |-> (intensity * Sin((PHASE * rng.freq * (i - 1)) \div 10)) \div AMP]
    ELSE
        [i \in 1..n |-> intensity]

NoiseOf(n, noise_type, intensity, rng) ==
    IF noise_type = "gaussian" THEN
        NpNormal(intensity, rng.normal, n)
    ELSE IF noise_type = "impulse" THEN
        ImpulseNoise(n, intensity, rng)
    ELSE IF noise_type = "frequency_interference" THEN
        LET interference_freq == rng.freq
        IN  [i \in 1..n |->
                (intensity * Sin((PHASE * interference_freq * (i - 1)) \div 10)) \div AMP]
    ELSE
        [i \in 1..n |-> 0]

add_noise(signal, noise_type, intensity, rng) ==
    LET noise == NoiseOf(Len(signal), noise_type, intensity, rng)
    IN  [i \in 1..Len(signal) |-> signal[i] + noise[i]]

----------------------------------------------------------------------------
(* scipy.signal as the two programs call it: butter, iirnotch, lfilter.     *)

\* ValueError of scipy.signal.butter
BadCritical == "ValueError: Digital filter critical frequencies must be 0 < Wn < 1"
BadBand == "ValueError: Wn[0] must be less than Wn[1]"
\* ValueError of scipy.signal.iirnotch
BadNotch == "ValueError: w0 should be such that 0 < w0 < 1"
\* ValueError of apply_filter
UnknownFilter == "ValueError: Unknown filter type."

\* the fraction n/d (d > 0) and its comparisons
Frac(n, d) == <<n, d>>
FracLess(f, g) == f[1] * g[2] < g[1] * f[2]
InUnit(f) == 0 < f[1] /\ f[1] < f[2]
\* a fraction as a fixed-point coefficient
Fixed(f) == (f[1] * ONE) \div f[2]

Pad(s, n) == [k \in 1..n |-> IF k <= Len(s) THEN s[k] ELSE 0]

\* The coefficients of scipy's designs are real numbers computed from the
\* poles of the analog prototype.  Kept here: the validation of Wn, the
\* count of coefficients (order + 1, twice the order + 1 for a band), the
\* leading denominator coefficient 1.0 and the dependence on btype and Wn;
\* the values are those of the first-order section of the same kind.
butter(order, Wn, btype) ==
    LET band == btype = "bandstop"
        bad == IF band THEN ~InUnit(Wn[1]) \/ ~InUnit(Wn[2]) ELSE ~InUnit(Wn)
        w == IF band THEN Fixed(Wn[2]) - Fixed(Wn[1]) ELSE Fixed(Wn)
    IN  IF bad THEN Raise(BadCritical, <<>>)
        ELSE IF band /\ ~FracLess(Wn[1], Wn[2]) THEN Raise(BadBand, <<>>)
        ELSE IF btype = "low" THEN
            Ret([b |-> Pad(<<w>>, order + 1),
                 a |-> Pad(<<ONE, w - ONE>>, order + 1)], <<>>)
        ELSE IF btype = "high" THEN
            Ret([b |-> Pad(<<ONE - w, w - ONE>>, order + 1),
                 a |-> Pad(<<ONE, w - ONE>>, order + 1)], <<>>)
        ELSE
            Ret([b |-> Pad(<<ONE - w, 0, w>>, 2 * order + 1),
                 a |-> Pad(<<ONE>>, 2 * order + 1)], <<>>)

\* scipy.signal.iirnotch(w0, Q): w0 outside [0, 1] is refused; the
\* second-order section b = gain * [1, -2 cos(pi w0), 1],
\* a = [1, -2 gain cos(pi w0), 2 gain - 1], gain = 1 / (1 + tan(pi w0 / (2 Q))),
\* the tangent of the small angle taken as the angle (pi = 355/113)
iirnotch(w0, Q) ==
    IF FracLess(Frac(1, 1), w0) \/ w0[1] < 0 THEN Raise(BadNotch, <<>>)
    ELSE
        LET beta == (355 * w0[1] * ONE) \div (113 * 2 * Q * w0[2])
            c == Cos((PHASE * w0[1]) \div (2 * w0[2]))
            gain == (ONE * ONE) \div (ONE + beta)
        IN  Ret([b |-> <<gain, (-2 * gain * c) \div AMP, gain>>,
                 a |-> <<ONE, (-2 * gain * c) \div AMP, 2 * gain - ONE>>], <<>>)

RECURSIVE Taps(_, _, _, _)
\* c[k] * s[i - k] summed over the taps k that reach back no further than
\* the first sample (zero initial state)
Taps(c, s, i, k) ==
    IF k > Len(c) \/ k > i THEN 0
    ELSE c[k] * s[i - k + 1] + Taps(c, s, i, k + 1)

RECURSIVE LfilterFrom(_, _, _, _)
LfilterFrom(b, a, x, y) ==
    IF Len(y) = Len(x) THEN y
    ELSE LET i == Len(y) + 1
             v == Taps(b, x, i, 1) - Taps(a, y, i, 2)
         IN  LfilterFrom(b, a, x, Append(y, v \div a[1]))

\* scipy.signal.lfilter(b, a, x): the difference equation
\* a[0] y[n] = sum b[k] x[n-k] - sum a[k] y[n-k]
lfilter(b, a, x) == LfilterFrom(b, a, x, <<>>)

\* the entries of a result's log
DesignCall(order, Wn, btype) == [fn |-> "butter", order |-> order, Wn |-> Wn, btype |-> btype]
NotchCall(w0, Q) == [fn |-> "iirnotch", w0 |-> w0, Q |-> Q]
FilterCall(coef, x, y) == [fn |-> "lfilter", coef |-> coef, x |-> x, y |-> y]

----------------------------------------------------------------------------
(* PCB_signal_processing_2.py: the filters.  Frequencies in tenths of a Hz. *)

\* cutoff / nyquist with nyquist = 0.5 * fs
Normalised(cutoff, fs) == Frac(2 * cutoff, fs)

\* a design, logged
Designed(order, Wn, btype) ==
    LET d == butter(order, Wn, btype)
    IN  [d EXCEPT !.log = <<DesignCall(order, Wn, btype)>>]

butter_lowpass(cutoff, fs, order) ==
    LET normal_cutoff == Normalised(cutoff, fs)
    IN  Designed(order, normal_cutoff, "low")

butter_highpass(cutoff, fs, order) ==
    LET normal_cutoff == Normalised(cutoff, fs)
    IN  Designed(order, normal_cutoff, "high")

butter_bandstop(lowcut, highcut, fs, order) ==
    LET low == Normalised(lowcut, fs)
        high == Normalised(highcut, fs)
    IN  Designed(order, <<low, high>>, "bandstop")

\* (mutant of Filtered: lfilter(b, a, signal[1:]), which loses a sample)
Filtered_shortened(d, signal) ==
    IF d.exc # NoError THEN d
    ELSE LET y == lfilter(d.val.b, d.val.a, SubSeq(signal, 2, Len(signal)))
         IN  Ret(y, Append(d.log, FilterCall(d.val, signal, y)))

\* filtered = lfilter(b, a, signal) after the design d; a design that raised
\* is what the caller raises
Filtered(d, signal) ==
    IF d.exc # NoError THEN d
    ELSE LET y == lfilter(d.val.b, d.val.a, signal)
         IN  Ret(y, Append(d.log, FilterCall(d.val, signal, y)))

\* (mutant of apply_filter: an unknown type falls back to the low-pass, as
\* generate_signal falls back to the sine)
apply_filter_fallback(signal, filter_type, cutoff, fs) ==
    IF filter_type = "High-Pass (RC)" THEN
        Filtered(butter_highpass(cutoff, fs, 5), signal)
    ELSE IF filter_type = "Band-Stop" THEN
        Filtered(butter_bandstop(5, 50, fs, 5), signal)
    ELSE
        Filtered(butter_lowpass(cutoff, fs, 5), signal)

apply_filter(signal, filter_type, cutoff, fs) ==
    IF filter_type = "Low-Pass (RC)" THEN
        Filtered(butter_lowpass(cutoff, fs, 5), signal)
    ELSE IF filter_type = "High-Pass (RC)" THEN
        Filtered(butter_highpass(cutoff, fs, 5), signal)
    ELSE IF filter_type = "Band-Stop" THEN
        Filtered(butter_bandstop(5, 50, fs, 5), signal)
    ELSE
        Raise(UnknownFilter, <<>>)

----------------------------------------------------------------------------
(* Audio_signal_processing.py: the filters.  Frequencies in Hz.             *)

butter_filter(order, cutoff, fs, btype) ==
    LET normal_cutoff == Normalised(cutoff, fs)
    IN  Designed(order, normal_cutoff, btype)

apply_high_pass(signal, cutoff, fs) ==
    Filtered(butter_filter(4, cutoff, fs, "high"), signal)

apply_low_pass(signal, cutoff, fs) ==
    Filtered(butter_filter(4, cutoff, fs, "low"), signal)

\* (mutant of apply_band_pass: the second stage filters signal, not low_passed)
apply_band_pass_parallel(signal, lowcut, highcut, fs) ==
    LET low == butter_filter(4, highcut, fs, "low")
        high == butter_filter(4, lowcut, fs, "high")
    IN  IF low.exc # NoError THEN low
        ELSE IF high.exc # NoError THEN [high EXCEPT !.log = low.log \o high.log]
        ELSE LET low_passed == lfilter(low.val.b, low.val.a, signal)
                 band_passed == lfilter(high.val.b, high.val.a, signal)
             IN  Ret(band_passed,
                     low.log \o high.log
                        \o <<FilterCall(low.val, signal, low_passed),
                             FilterCall(high.val, signal, band_passed)>>)

apply_band_pass(signal, lowcut, highcut, fs) ==
    LET low == butter_filter(4, highcut, fs, "low")
        high == butter_filter(4, lowcut, fs, "high")
    IN  IF low.exc # NoError THEN low
        ELSE IF high.exc # NoError THEN [high EXCEPT !.log = low.log \o high.log]
        ELSE LET low_passed == lfilter(low.val.b, low.val.a, signal)
                 band_passed == lfilter(high.val.b, high.val.a, low_passed)
             IN  Ret(band_passed,
                     low.log \o high.log
                        \o <<FilterCall(low.val, signal, low_passed),
                             FilterCall(high.val, low_passed, band_passed)>>)

apply_notch_filter(signal, notch_freq, fs, quality) ==
    LET norm_notch_freq == Normalised(notch_freq, fs)
        d == iirnotch(norm_notch_freq, quality)
        n == [d EXCEPT !.log = <<NotchCall(norm_notch_freq, quality)>>]
    IN  Filtered(n, signal)

----------------------------------------------------------------------------
(* PCB_signal_processing_2.py: the FFT of process_signal (lines 160-175).   *)

EmptyFft == "ValueError: invalid number of data points (0) specified"
ZeroDivision == "ZeroDivisionError: float division by zero"

\* s[:m]
Take(s, m) == SubSeq(s, 1, IF m < Len(s) THEN m ELSE Len(s))

\* bin k of the discrete Fourier transform of x, as <<real, imaginary>>
DftBin(x, k) ==
    LET N == Len(x)
        angle(n) == (PHASE * ((k * n) % N)) \div N
    IN  <<SumTo([n \in 1..N |-> x[n] * Cos(angle(n - 1))], N) \div AMP,
          (0 - SumTo([n \in 1..N |-> x[n] * Sin(angle(n - 1))], N)) \div AMP>>

\* scipy.fft.fft(x): refuses an empty input
fft(x) ==
    IF Len(x) = 0 THEN Raise(EmptyFft, <<>>)
    ELSE Ret([i \in 1..Len(x) |-> DftBin(x, i - 1)], <<>>)

\* np.abs of a complex number
CAbs(z) == Isqrt(z[1] * z[1] + z[2] * z[2])

\* scipy.fft.fftfreq(n, d) with d = 1 / fs: val = 1.0 / (n * d), then the
\* indices 0 .. (n-1)//2 followed by -(n//2) .. -1, each times val
fftfreq(n, fs) ==
    IF n = 0 THEN Raise(ZeroDivision, <<>>)
    ELSE Ret([i \in 1..n |->
                LET k == IF i - 1 <= (n - 1) \div 2 THEN i - 1 ELSE i - 1 - n
                IN  Frac(k * fs, n)], <<>>)

\* yf = fft(signal); xf = fftfreq(N, T)[:N//2];
\* the plotted magnitudes 2.0/N * np.abs(yf[:N//2])
Analyze(signal, fs) ==
    LET N == Len(signal)
        yf == fft(signal)
        xf == fftfreq(N, fs)
    IN  IF yf.exc # NoError THEN yf
        ELSE IF xf.exc # NoError THEN xf
        ELSE IF N = 0 THEN Raise(ZeroDivision, <<>>)
        ELSE Ret([xf |-> Take(xf.val, N \div 2),
                  mag |-> [i \in 1..Len(Take(yf.val, N \div 2)) |->
                              Frac(2 * CAbs(yf.val[i]), N)]], <<>>)

----------------------------------------------------------------------------
(* The inputs the functions are called on.                                  *)

\* longest of the short buffers
MaxLen == 3
\* length of the long buffers: int(0.05 * ImpulseLen) = 2 impulses are drawn
ImpulseLen == 40

SeqsOver(S, n) == UNION {[1..m -> S] : m \in 0..n}

\* short buffers of every content, and longer ones over two levels
Buffers == SeqsOver({0 - AMP, 0, AMP}, MaxLen)
LongerBuffers == SeqsOver({0, AMP}, MaxLen + 2)

\* time = np.arange(0, n/100, 0.01), in hundredths of a second
Grid(n) == [i \in 1..n |-> i - 1]

SignalTypes == {"sine", "square", "sawtooth", "modulated"}
NoiseTypes == {"gaussian", "impulse", "frequency_interference"}
FilterTypes == {"Low-Pass (RC)", "High-Pass (RC)", "Band-Stop",
                "Butterworth Low-Pass", "Butterworth High-Pass"}

\* whole waveforms to add noise to
Waves == {generate_signal(t, 50, Grid(ImpulseLen)) : t \in {"square", "sawtooth"}}

\* the noise intensities (the entry is labelled 0-20; 0.5 is its default)
Intensities == {0, AMP \div 2}

NoRng == [normal |-> <<>>, idx |-> <<>>, uni |-> <<>>, freq |-> 0]

\* what np.random can draw for a signal of n samples
Rngs(n, noise_type) ==
    IF noise_type = "gaussian" THEN
        {[NoRng EXCEPT !.normal = z] :
            z \in IF n <= MaxLen THEN [1..n -> {-1, 0, 1}]
                  ELSE {[i \in 1..n |-> ((i * m) % 3) - 1] : m \in 0..2}}
    ELSE IF noise_type = "impulse" THEN
        {[NoRng EXCEPT !.idx = ix, !.uni = u] :
            ix \in [1..NumImpulses(n) -> 0..(n - 1)],
            u \in [1..NumImpulses(n) -> 0..3]}
    ELSE IF noise_type = "frequency_interference" THEN
        {[NoRng EXCEPT !.freq = f] : f \in {5, 12, 50}}
    ELSE {NoRng}

\* cutoffs of the signal application, in tenths of a hertz (fs = 1000)
Cutoffs == {-25, 0, 25, 499, 500, 600}
\* sampling rates and slider positions of the audio application, in hertz
Rates == {4000, 44100}
AudioCutoffs == {0, 300, 3000, 5000}
NotchFreqs == {100, 1000, 3000}

----------------------------------------------------------------------------
(* Calls of the module-level functions.                                     *)

NoCall == [op |-> "none", signal |-> <<>>, kind |-> "", args |-> <<>>,
           rng |-> NoRng, res |-> Ret(<<>>, <<>>)]

Called(op, signal, kind, args, rng, res) ==
    [op |-> op, signal |-> signal, kind |-> kind, args |-> args,
     rng |-> rng, res |-> res]

AppVars == <<signal_data, last, audio_signal, sampling_rate, processed_signal,
             processed_from, playing, dialog>>

\* Each function is called on fresh arguments: a call is made when the
\* previous one has returned (Return).
CallGenerate ==
    /\ call = NoCall
    /\ \E signal_type \in SignalTypes \cup {"triangle"}, frequency \in {10, 50},
       n \in (0..MaxLen) \cup {ImpulseLen} :
        /\ call' = Called("generate_signal", Grid(n), signal_type, <<frequency>>, NoRng,
                          Ret(generate_signal(signal_type, frequency, Grid(n)), <<>>))
        /\ UNCHANGED AppVars

CallAddNoise ==
    /\ call = NoCall
    /\ \E signal \in Buffers \cup Waves, noise_type \in NoiseTypes \cup {"unknown", ""},
       intensity \in Intensities :
        \E rng \in Rngs(Len(signal), noise_type) :
            /\ call' = Called("add_noise", signal, noise_type, <<intensity>>, rng,
                              Ret(add_noise(signal, noise_type, intensity, rng), <<>>))
            /\ UNCHANGED AppVars

CallApplyFilter ==
    /\ call = NoCall
    /\ \E signal \in Buffers, filter_type \in FilterTypes \cup {"Band-Pass", ""},
       cutoff \in Cutoffs :
        /\ call' = Called("apply_filter", signal, filter_type, <<cutoff, 1000>>, NoRng,
                          apply_filter(signal, filter_type, cutoff, 1000))
        /\ UNCHANGED AppVars

CallAudioFilter ==
    /\ call = NoCall
    /\ \E signal \in Buffers, fs \in Rates, cutoff \in AudioCutoffs, notch_freq \in NotchFreqs :
        /\ \/ call' = Called("apply_high_pass", signal, "high", <<cutoff, fs>>, NoRng,
                             apply_high_pass(signal, cutoff, fs))
           \/ call' = Called("apply_low_pass", signal, "low", <<cutoff, fs>>, NoRng,
                             apply_low_pass(signal, cutoff, fs))
           \/ \E highcut \in AudioCutoffs :
                call' = Called("apply_band_pass", signal, "band", <<cutoff, highcut, fs>>,
                               NoRng, apply_band_pass(signal, cutoff, highcut, fs))
           \/ call' = Called("apply_notch_filter", signal, "notch", <<notch_freq, fs>>,
                             NoRng, apply_notch_filter(signal, notch_freq, fs, 30))
        /\ UNCHANGED AppVars

CallAnalyze ==
    /\ call = NoCall
    /\ \E signal \in LongerBuffers :
        /\ call' = Called("analyze", signal, "fft", <<1000>>, NoRng, Analyze(signal, 1000))
        /\ UNCHANGED AppVars

Return ==
    /\ call # NoCall
    /\ call' = NoCall
    /\ UNCHANGED AppVars

\* no handler has run, or the last one has returned and what it showed is closed
NoEvent == [op |-> "none", args |-> <<>>, shown |-> "", exc |-> NoError,
            filtered |-> None, fig |-> None]
NoDialog == ""

Init ==
    /\ signal_data = None
    /\ last = NoEvent
    /\ audio_signal = None
    /\ sampling_rate = None
    /\ processed_signal = None
    /\ processed_from = None
    /\ playing = None
    /\ dialog = NoDialog
    /\ call = NoCall

NextDsp ==
    \/ CallGenerate
    \/ CallAddNoise
    \/ CallApplyFilter
    \/ CallAudioFilter
    \/ CallAnalyze
    \/ Return

SpecDsp == Init /\ [][NextDsp]_vars

----------------------------------------------------------------------------
(* The claims about the functions, checked under SpecDsp.                   *)

FilterOps == {"apply_filter", "apply_high_pass", "apply_low_pass",
              "apply_band_pass", "apply_notch_filter"}

\* the filter types apply_filter has a branch for
Recognized == {"Low-Pass (RC)", "High-Pass (RC)", "Band-Stop"}

IsFilterCall(e) == e.fn = "lfilter"
IsDesignCall(e) == e.fn \in {"butter", "iirnotch"}

\* C1: a filter applied to a buffer B on a valid request (one that does not
\* raise) returns a buffer of exactly len(B) samples, for the low-pass, the
\* high-pass, the band-stop, the notch and the two-stage band-pass.
LengthInvariance ==
    (call.op \in FilterOps /\ call.res.exc = NoError)
        => Len(call.res.val) = Len(call.signal)

LengthInvarianceWitness ==
    /\ call.op = "apply_band_pass"
    /\ call.res.exc = NoError
    /\ Len(call.signal) >= 2
    /\ Len(call.res.val) = Len(call.signal)

\* C3: apply_filter with a filter type it has no branch for raises "Unknown
\* filter type." before any design or filtering (no call of scipy.signal is
\* made) and returns no buffer; with a type it has a branch for it never
\* raises that error.
UnsupportedKindAtBoundary ==
    call.op = "apply_filter" =>
        IF call.kind \in Recognized
        THEN call.res.exc # UnknownFilter
        ELSE /\ call.res.exc = UnknownFilter
             /\ call.res.log = <<>>
             /\ call.res.val = <<>>

UnsupportedKindWitness ==
    /\ call.op = "apply_filter"
    /\ call.kind \notin Recognized
    /\ Len(call.signal) > 0
    /\ call.args[1] = 25
    /\ call.res.exc = UnknownFilter

\* C4: the band-pass is a cascade in a fixed order: the input is filtered by
\* the low-pass designed at the high cutoff, that intermediate buffer (not
\* the input) is filtered by the high-pass designed at the low cutoff, and
\* the output of this second stage is what is returned.
BandPassStages ==
    LET lowcut == call.args[1]
        highcut == call.args[2]
        fs == call.args[3]
        lp == butter(4, Normalised(highcut, fs), "low").val
        hp == butter(4, Normalised(lowcut, fs), "high").val
        stages == SelectSeq(call.res.log, IsFilterCall)
    IN  /\ Len(stages) = 2
        /\ stages[1].coef = lp
        /\ stages[1].x = call.signal
        /\ stages[1].y = lfilter(lp.b, lp.a, call.signal)
        /\ stages[2].coef = hp
        /\ stages[2].x = stages[1].y
        /\ stages[2].y = lfilter(hp.b, hp.a, stages[1].y)
        /\ call.res.val = stages[2].y

BandPassCascade ==
    (call.op = "apply_band_pass" /\ call.res.exc = NoError) => BandPassStages

BandPassCascadeWitness ==
    /\ call.op = "apply_band_pass"
    /\ call.res.exc = NoError
    /\ LET stages == SelectSeq(call.res.log, IsFilterCall)
       IN  /\ Len(stages) = 2
           /\ stages[1].y # call.signal
           /\ stages[2].y # stages[1].y
           /\ stages[2].y # lfilter(stages[2].coef.b, stages[2].coef.a, call.signal)

\* the impulse values add_noise drew: np.random.uniform(-2 i, 2 i, num)
DrawnValues ==
    NpUniform(-2 * call.args[1], 2 * call.args[1], call.rng.uni, Len(call.rng.idx))

\* the draws that hit position i (numbered from 1)
DrawsAt(i) == {j \in 1..Len(call.rng.idx) : call.rng.idx[j] = i - 1}

Largest(S) == CHOOSE j \in S : \A k \in S : k <= j

\* C5: impulse noise changes at most floor(0.05 N) positions of an N-sample
\* signal; a position that is not a drawn index holds the input value; a
\* position drawn more than once holds the input plus the last value
\* written to it, not a sum of values; every sample differs from its input
\* by a value in [-2 intensity, 2 intensity].
ImpulseNoiseBounded ==
    (call.op = "add_noise" /\ call.kind = "impulse") =>
        LET N == Len(call.signal)
            out == call.res.val
            intensity == call.args[1]
        IN  /\ Len(out) = N
            /\ Cardinality({i \in 1..N : out[i] # call.signal[i]}) <= N \div 20
            /\ \A i \in 1..N :
                /\ DrawsAt(i) = {} => out[i] = call.signal[i]
                /\ DrawsAt(i) # {} =>
                        out[i] = call.signal[i] + DrawnValues[Largest(DrawsAt(i))]
                /\ out[i] - call.signal[i] >= -2 * intensity
                /\ out[i] - call.signal[i] <= 2 * intensity

ImpulseNoiseWitness ==
    /\ call.op = "add_noise"
    /\ call.kind = "impulse"
    /\ Len(call.rng.idx) = 2
    /\ call.rng.idx[1] = call.rng.idx[2]
    /\ DrawnValues[1] + DrawnValues[2] # DrawnValues[2]
    /\ DrawnValues[2] # 0
    /\ call.res.val[call.rng.idx[2] + 1]
            = call.signal[call.rng.idx[2] + 1] + DrawnValues[2]

\* C6: add_noise with a noise type that is none of gaussian, impulse and
\* frequency_interference returns the input signal sample for sample, for
\* every intensity.
NoiseNullCase ==
    (call.op = "add_noise" /\ call.kind \notin NoiseTypes)
        => call.res.val = call.signal

NoiseNullCaseWitness ==
    /\ call.op = "add_noise"
    /\ call.kind = "unknown"
    /\ call.args[1] > 0
    /\ Len(call.signal) >= 2
    /\ \E i \in 1..Len(call.signal) : call.signal[i] # 0
    /\ call.res.val = call.signal

----------------------------------------------------------------------------
(* PCB_signal_processing_2.py: SignalProcessorApp.                          *)

\* fs = 100 (Hz), in tenths of a hertz
SamplingFrequency == 1000

\* the first columns a CSV file can hold
CsvColumns == SeqsOver({0, AMP}, MaxLen)

\* what the file dialog and pd.read_csv can give: no file chosen, a file
\* that does not parse, a table without columns, a table with columns
CsvFiles ==
    {[chosen |-> FALSE, parses |-> FALSE, columns |-> <<>>],
     [chosen |-> TRUE, parses |-> FALSE, columns |-> <<>>],
     [chosen |-> TRUE, parses |-> TRUE, columns |-> <<>>]}
    \cup {[chosen |-> TRUE, parses |-> TRUE, columns |-> <<c>>] : c \in CsvColumns}
    \cup {[chosen |-> TRUE, parses |-> TRUE, columns |-> <<c, <<AMP>>>>] :
            c \in {<<>>, <<AMP, 0>>}}

\* the positions of the cutoff entry tried (2.5 Hz is its default)
EntryCutoffs == {0, 25, 500}

\* the draws of np.random tried in the application
AppRngs(n, noise_type) ==
    IF noise_type = "gaussian" THEN
        {[NoRng EXCEPT !.normal = [i \in 1..n |-> ((i * m) % 3) - 1]] : m \in 1..2}
    ELSE IF noise_type = "impulse" THEN
        {[NoRng EXCEPT !.idx = [j \in 1..NumImpulses(n) |-> (m * j) % n],
                       !.uni = [j \in 1..NumImpulses(n) |-> (m + j) % 4]] : m \in 0..1}
    ELSE {[NoRng EXCEPT !.freq = f] : f \in {12, 50}}

upload_csv(file) ==
    IF ~file.chosen THEN
        [data |-> None, shown |-> ""]
    ELSE IF ~file.parses THEN
        [data |-> None, shown |-> "Failed to load CSV file"]
    ELSE IF Len(file.columns) >= 1 THEN
        [data |-> Some(file.columns[1]), shown |-> "CSV file loaded successfully!"]
    ELSE
        [data |-> None, shown |-> "CSV file must have at least one column."]

UploadCsv ==
    /\ last = NoEvent
    /\ \E file \in CsvFiles :
        LET r == upload_csv(file)
        IN  /\ signal_data' = IF r.data # None THEN r.data ELSE signal_data
            /\ last' = [NoEvent EXCEPT !.op = "upload_csv", !.shown = r.shown]
    /\ UNCHANGED <<audio_signal, sampling_rate, processed_signal, processed_from,
                   playing, dialog, call>>

\* the handler, from the widgets' values and the draws of np.random to what
\* it leaves on the screen
process_signal(data, signal_type, noise_type, intensity, filter_type, cutoff, rng) ==
    LET n == IF data # None THEN Len(data[1]) ELSE ImpulseLen
        time == Grid(n)
        signal == IF data # None THEN data[1]
                  ELSE add_noise(generate_signal(signal_type, 50, time),
                                 noise_type, intensity, rng)
        fs == SamplingFrequency
        filtered_signal == apply_filter(signal, filter_type, cutoff, fs)
        spectrum == Analyze(signal, fs)
        event == [NoEvent EXCEPT !.op = "process_signal",
                                 !.args = <<filter_type, cutoff>>]
    IN  IF filtered_signal.exc # NoError THEN
            [event EXCEPT !.exc = filtered_signal.exc]
        ELSE IF spectrum.exc # NoError THEN
            [event EXCEPT !.exc = spectrum.exc, !.filtered = Some(filtered_signal.val)]
        ELSE
            [event EXCEPT
                !.filtered = Some(filtered_signal.val),
                !.fig = Some([time |-> time,
                              signal |-> signal,
                              xf |-> spectrum.val.xf,
                              mag |-> spectrum.val.mag,
                              filtered |-> filtered_signal.val,
                              noise |-> [i \in 1..Len(signal) |->
                                            signal[i] - filtered_signal.val[i]]])]

ProcessSignal ==
    /\ last = NoEvent
    /\ \E signal_type \in SignalTypes, noise_type \in NoiseTypes,
          intensity \in Intensities, filter_type \in FilterTypes,
          cutoff \in EntryCutoffs :
        \E rng \in IF signal_data # None THEN {NoRng}
                   ELSE AppRngs(ImpulseLen, noise_type) :
            last' = process_signal(signal_data, signal_type, noise_type, intensity,
                                   filter_type, cutoff, rng)
    /\ UNCHANGED <<signal_data, audio_signal, sampling_rate, processed_signal,
                   processed_from, playing, dialog, call>>

\* the handler has returned and the message box or figure it showed is closed
Idle ==
    /\ last # NoEvent
    /\ last' = NoEvent
    /\ UNCHANGED <<signal_data, audio_signal, sampling_rate, processed_signal,
                   processed_from, playing, dialog, call>>

NextApp ==
    \/ UploadCsv
    \/ ProcessSignal
    \/ Idle

SpecApp == Init /\ [][NextApp]_vars

\* a cutoff the design accepts: 0 < cutoff / nyquist < 1
ValidCutoff(cutoff, fs) == 0 < 2 * cutoff /\ 2 * cutoff < fs

\* C10: every filter type the menu offers is one apply_filter has a branch
\* for: with a valid cutoff process_signal obtains a filtered buffer and
\* does not end in "Unknown filter type.".
MenuKindsRecognized ==
    (/\ last.op = "process_signal"
     /\ last.args[1] \in FilterTypes
     /\ ValidCutoff(last.args[2], SamplingFrequency))
        => (last.exc # UnknownFilter /\ last.filtered # None)

----------------------------------------------------------------------------
(* Audio_signal_processing.py: load_audio and SignalProcessorApp.           *)

NoProcessedWarning == "No processed audio to play."
NoAudioWarning == "Please load an audio file first."

\* the files the dialog can return: no file chosen, a file librosa cannot
\* read, a readable file with its samples and native rate
AudioFiles ==
    {[chosen |-> FALSE, readable |-> FALSE, signal |-> <<>>, sr |-> 0],
     [chosen |-> TRUE, readable |-> FALSE, signal |-> <<>>, sr |-> 0]}
    \cup {[chosen |-> TRUE, readable |-> TRUE, signal |-> <<AMP, 0 - AMP>>, sr |-> r] :
            r \in Rates}
    \cup {[chosen |-> TRUE, readable |-> TRUE, signal |-> <<AMP, AMP, 0>>, sr |-> 4000]}

\* the positions of the five sliders tried: the defaults, and the low
\* cutoffs at their upper end with the high cutoffs at their lower end
SliderSettings ==
    {[high_pass |-> 500, low_pass |-> 3000, band_pass_low |-> 300,
      band_pass_high |-> 3400, notch |-> 1000],
     [high_pass |-> 3000, low_pass |-> 500, band_pass_low |-> 3000,
      band_pass_high |-> 500, notch |-> 3000]}

\* the module-level load_audio: (signal, sr), or (None, None) when
\* librosa.load raises
load_audio(file) ==
    IF file.readable THEN <<Some(file.signal), Some(file.sr)>>
    ELSE <<None, None>>

LoadAudio ==
    /\ \E file \in AudioFiles :
        IF file.chosen THEN
            /\ audio_signal' = load_audio(file)[1]
            /\ sampling_rate' = load_audio(file)[2]
        ELSE
            UNCHANGED <<audio_signal, sampling_rate>>
    /\ dialog' = NoDialog
    /\ UNCHANGED <<processed_signal, processed_from, playing, signal_data, last, call>>

\* sd.play(data, samplerate); start records what the application held when
\* playback started
PlayAudio ==
    /\ IF processed_signal # None THEN
            /\ playing' = Some([data |-> processed_signal[1],
                                samplerate |-> sampling_rate,
                                from |-> processed_from,
                                audio |-> audio_signal])
            /\ dialog' = NoDialog
       ELSE
            /\ dialog' = NoProcessedWarning
            /\ UNCHANGED playing
    /\ UNCHANGED <<audio_signal, sampling_rate, processed_signal, processed_from,
                   signal_data, last, call>>

\* sd.stop()
StopAudio ==
    /\ playing' = None
    /\ dialog' = NoDialog
    /\ UNCHANGED <<audio_signal, sampling_rate, processed_signal, processed_from,
                   signal_data, last, call>>

\* one optional stage of process_audio, f being the selected filter applied
\* to the result r so far: a stage that raised stays raised
Stage(selected, r, f) ==
    IF r.exc # NoError \/ ~selected THEN r
    ELSE [f EXCEPT !.log = r.log \o f.log]

\* the chain of the selected filters over a copy of the audio
process_audio(audio, fs, boxes, sliders) ==
    LET s0 == Ret(audio, <<>>)
        s1 == Stage(boxes.high_pass, s0,
                    apply_high_pass(s0.val, sliders.high_pass, fs))
        s2 == Stage(boxes.low_pass, s1,
                    apply_low_pass(s1.val, sliders.low_pass, fs))
        s3 == Stage(boxes.band_pass, s2,
                    apply_band_pass(s2.val, sliders.band_pass_low,
                                    sliders.band_pass_high, fs))
    IN  Stage(boxes.notch, s3, apply_notch_filter(s3.val, sliders.notch, fs, 30))

Boxes == [high_pass : BOOLEAN, low_pass : BOOLEAN, band_pass : BOOLEAN, notch : BOOLEAN]

ProcessAudio ==
    /\ IF audio_signal = None THEN
            /\ dialog' = NoAudioWarning
            /\ UNCHANGED <<processed_signal, processed_from>>
       ELSE \E boxes \in Boxes, sliders \in SliderSettings :
            LET r == process_audio(audio_signal[1], sampling_rate[1], boxes, sliders)
            IN  /\ dialog' = NoDialog
                /\ IF r.exc # NoError THEN
                        UNCHANGED <<processed_signal, processed_from>>
                   ELSE
                        /\ processed_signal' = Some(r.val)
                        /\ processed_from' = Some([audio |-> audio_signal,
                                                   rate |-> sampling_rate])
    /\ UNCHANGED <<audio_signal, sampling_rate, playing, signal_data, last, call>>

NextAudio ==
    \/ LoadAudio
    \/ PlayAudio
    \/ StopAudio
    \/ ProcessAudio

SpecAudio == Init /\ [][NextAudio]_vars

\* C9: whenever play_audio starts playback, the processed signal it plays
\* was computed by process_audio from the audio loaded at that moment, and
\* the rate given to playback is not None and is the rate of that audio;
\* without a processed signal play_audio only warns and plays nothing.
PlaysCurrentAudio ==
    /\ playing # None =>
            /\ playing[1].samplerate # None
            /\ playing[1].audio # None
            /\ playing[1].from = Some([audio |-> playing[1].audio,
                                       rate |-> playing[1].samplerate])
    /\ processed_signal = None => playing = None
    /\ dialog = NoProcessedWarning => processed_signal = None

----------------------------------------------------------------------------
(* Further claims about the functions, checked under SpecDsp.               *)

FracEq(f, g) == f[1] * g[2] = g[1] * f[2]

\* the errors a design raises for its parameters
InvalidParameter == {BadCritical, BadBand, BadNotch}

\* the request of the call has a cutoff whose normalised value is not
\* strictly between 0 and 1, or is a band with low cutoff >= high cutoff
InvalidRequest ==
    IF call.op = "apply_filter" THEN
        LET fs == call.args[2]
        IN  IF call.kind \in {"Low-Pass (RC)", "High-Pass (RC)"}
            THEN ~ValidCutoff(call.args[1], fs)
            ELSE /\ call.kind = "Band-Stop"
                 /\ (~ValidCutoff(5, fs) \/ ~ValidCutoff(50, fs) \/ 5 >= 50)
    ELSE IF call.op = "apply_band_pass" THEN
        \/ ~ValidCutoff(call.args[1], call.args[3])
        \/ ~ValidCutoff(call.args[2], call.args[3])
        \/ call.args[1] >= call.args[2]
    ELSE
        /\ call.op \in {"apply_high_pass", "apply_low_pass", "apply_notch_filter"}
        /\ ~ValidCutoff(call.args[1], call.args[2])

\* C2: for every filter kind, a cutoff whose normalised value is not
\* strictly between 0 and 1, or a band (band-pass, band-stop) whose low
\* cutoff is not below its high cutoff, makes the design fail with an
\* invalid-parameter error before any filtering: no buffer is returned.
DesignRejectsInvalid ==
    InvalidRequest =>
        /\ call.res.exc \in InvalidParameter
        /\ call.res.val = <<>>
        /\ SelectSeq(call.res.log, IsFilterCall) = <<>>

\* C7: for a buffer of N samples (odd or even) at sample rate fs the
\* spectrum has floor(N/2) entries, entry k has the frequency k * fs / N and
\* the magnitude (2/N) * |DFT[k]|, and the two sequences have one length.
SpectrumShape ==
    call.op = "analyze" =>
        LET N == Len(call.signal)
            fs == call.args[1]
        IN  /\ call.res.exc = NoError
            /\ Len(call.res.val.xf) = N \div 2
            /\ Len(call.res.val.mag) = Len(call.res.val.xf)
            /\ \A k \in 0..(N \div 2 - 1) :
                /\ FracEq(call.res.val.xf[k + 1], Frac(k * fs, N))
                /\ FracEq(call.res.val.mag[k + 1],
                          Frac(2 * CAbs(DftBin(call.signal, k)), N))

\* (C7 on the buffers that have a sample: the same statement for N >= 1)
SpectrumShapeOfSamples ==
    (call.op = "analyze" /\ Len(call.signal) >= 1) => SpectrumShape

\* C8: a zero-length buffer given to any transform (synthesis on an empty
\* time grid, every noise, every filter on a valid request, the spectrum)
\* gives a zero-length result and no error.
EmptyBufferResult ==
    (/\ call.op # "none"
     /\ Len(call.signal) = 0
     /\ call.res.exc \notin InvalidParameter \cup {UnknownFilter})
        => /\ call.res.exc = NoError
           /\ IF call.op = "analyze"
              THEN call.res.val.xf = <<>> /\ call.res.val.mag = <<>>
              ELSE call.res.val = <<>>

====
